---- MODULE Spec2Model ----
(***************************************************************************)
(* Model of led-cube/stats-gl.cpp: the REST command handlers (/update,     *)
(* /status), the target and live state they share with the render loop,    *)
(* and the render loop's per-tick interpolation.                            *)
(*                                                                         *)
(* Units.  Scalar fields (colour level, width, percent, segments) are      *)
(* integers in thousandths (30.0 is 30000, 1.0 is 1000).  Colour channels  *)
(* are integers in 1/CDEN, with CDEN = 5610 chosen so that n/255 and the   *)
(* three gradient formulas of heat_colour_to_bg are exact for whole colour *)
(* levels.  Times are integer milliseconds.  Floats are read as reals.     *)
(*                                                                         *)
(* Request bodies.  A body is a function from the eight recognised keys to *)
(* the raw value written after the key: absent, a quoted string, a number  *)
(* text, text std::stof rejects ("junk"), or an array of such tokens.      *)
(* Bodies are well-formed objects in which no key text occurs inside a     *)
(* value, so body.find("\"key\"") finds the key itself.                     *)
(***************************************************************************)
EXTENDS Integers, Sequences, FiniteSets, TLC

VARIABLES target, live, t, updateTime, req, res, sres, frame, nreq, pc, lk, loc,
          blankInterval, proc

vars == <<target, live, t, updateTime, req, res, sres, frame, nreq, pc, lk, loc,
          blankInterval, proc>>

(***************************************************************************)
(* Program constants                                                        *)
(***************************************************************************)
API_TOKEN == "1234567890"
BLANKINTERVAL == 0
ANIMSTEP == 40
COLORSTEP == 2
SEGMENTS == 10
GRAY_START_TIME == 60
DT_MAX == 100
SCALE == 10 * 10 * 10
CDEN == 255 * 2 * 11

(***************************************************************************)
(* Bounds of the model                                                      *)
(***************************************************************************)
MaxT == 200
MaxRequests == 2
PoolSize == 2
ConcMaxT == 100
ConcRequests == 2
ConvRequests == 1
ConvWindow == 100
ConvMaxT == 3500
AgeSpan == 400
AgeRequests == 1
HeatRequests == 2
StopMaxT == 200
StopRequests == 1
MaxSignals == 1
SegRequests == 2

(***************************************************************************)
(* compat::clamp                                                            *)
(***************************************************************************)
clamp(v, lo, hi) == IF v < lo THEN lo ELSE IF hi < v THEN hi ELSE v

(***************************************************************************)
(* Raw JSON values                                                          *)
(***************************************************************************)
Keys == {"mode", "colour", "geometry", "segments", "width", "percent",
         "elementColor", "backgroundColor"}

Absent == [kind |-> "absent"]
Junk == [kind |-> "junk"]
Blank == [kind |-> "blank"]
Str(s) == [kind |-> "string", s |-> s]
Hex(cs) == [kind |-> "string", chars |-> cs]
Num(n) == [kind |-> "number", n |-> n]
Arr(toks) == [kind |-> "array", toks |-> toks]

EmptyBody == [k \in Keys |-> Absent]

(***************************************************************************)
(* extract_json_string: the value must start with a double quote.           *)
(***************************************************************************)
extract_json_string(body, key) ==
    IF body[key].kind = "string"
    THEN [ok |-> TRUE, out |-> body[key]]
    ELSE [ok |-> FALSE]

(***************************************************************************)
(* extract_json_number: std::stof of the text after the colon; a text stof  *)
(* rejects throws and the catch returns false.                              *)
(***************************************************************************)
extract_json_number(body, key) ==
    IF body[key].kind = "number"
    THEN [ok |-> TRUE, out |-> body[key].n]
    ELSE [ok |-> FALSE]

(***************************************************************************)
(* extract_json_array_floats: writes outArr[idx++] while it scans, so the   *)
(* slots written before a token that throws stay written.                   *)
(***************************************************************************)
RECURSIVE array_loop(_, _, _, _, _)
array_loop(outArr, toks, i, idx, maxN) ==
    IF i > Len(toks) \/ idx >= maxN
    THEN [ok |-> TRUE, arr |-> outArr, outN |-> idx]
    ELSE IF toks[i].kind = "blank"
    THEN array_loop(outArr, toks, i + 1, idx, maxN)
    ELSE IF toks[i].kind = "number"
    THEN array_loop([outArr EXCEPT ![idx + 1] = toks[i].n], toks, i + 1, idx + 1, maxN)
    ELSE [ok |-> FALSE, arr |-> outArr, outN |-> 0]

extract_json_array_floats(body, key, outArr, maxN) ==
    IF body[key].kind = "array"
    THEN array_loop(outArr, body[key].toks, 1, 0, maxN)
    ELSE [ok |-> FALSE, arr |-> outArr, outN |-> 0]

(***************************************************************************)
(* parse_hex_color                                                          *)
(***************************************************************************)
hex2(c) ==
    CASE c = "0" -> 0 [] c = "1" -> 1 [] c = "2" -> 2 [] c = "3" -> 3
      [] c = "4" -> 4 [] c = "5" -> 5 [] c = "6" -> 6 [] c = "7" -> 7
      [] c = "8" -> 8 [] c = "9" -> 9
      [] c = "a" -> 10 [] c = "b" -> 11 [] c = "c" -> 12
      [] c = "d" -> 13 [] c = "e" -> 14 [] c = "f" -> 15
      [] c = "A" -> 10 [] c = "B" -> 11 [] c = "C" -> 12
      [] c = "D" -> 13 [] c = "E" -> 14 [] c = "F" -> 15
      [] OTHER -> -1

parse_hex_color(hex) ==
    LET h == IF hex # <<>> /\ hex[1] = "#" THEN Tail(hex) ELSE hex
    IN  IF Len(h) # 6 THEN [ok |-> FALSE]
        ELSE LET d == [i \in 1..6 |-> hex2(h[i])]
             IN  IF \E i \in 1..6 : d[i] < 0 THEN [ok |-> FALSE]
                 ELSE [ok |-> TRUE,
                       rgb |-> << ((d[1] * 16 + d[2]) * CDEN) \div 255,
                                  ((d[3] * 16 + d[4]) * CDEN) \div 255,
                                  ((d[5] * 16 + d[6]) * CDEN) \div 255 >>]

(***************************************************************************)
(* heat_colour_to_bg                                                        *)
(***************************************************************************)
heat_colour_to_bg(colour01_100) ==
    LET c == clamp(colour01_100, 0, 100 * SCALE)
    IN  IF c <= 33 * SCALE
        THEN << 0,
                (c * CDEN) \div (66 * SCALE),
                (2 * CDEN) \div 5 + (2 * c * CDEN) \div (5 * 33 * SCALE) >>
        ELSE IF c <= 66 * SCALE
        THEN << ((c - 33 * SCALE) * CDEN) \div (33 * SCALE),
                (3 * CDEN) \div 5 + (2 * (c - 33 * SCALE) * CDEN) \div (5 * 33 * SCALE),
                CDEN - ((c - 33 * SCALE) * CDEN) \div (33 * SCALE) >>
        ELSE << CDEN,
                CDEN - ((c - 66 * SCALE) * CDEN) \div (34 * SCALE),
                0 >>

(***************************************************************************)
(* POST /update, lines 652-725: the field writes of one request, in source  *)
(* order.  The result carries the locals any, gotColour, gotElementColor    *)
(* and gotBackgroundColor.                                                  *)
(***************************************************************************)
geometry_index(geom) ==
    CASE geom = "ring" -> 0
      [] geom = "circle" -> 1
      [] geom = "square" -> 2
      [] geom = "triangle" -> 3
      [] geom = "x" -> 4
      [] OTHER -> -1

write_mode(tg, b) ==
    LET m == extract_json_string(b, "mode")
    IN  IF m.ok THEN [tg |-> [tg EXCEPT !.tmodeStr = m.out.s], any |-> TRUE]
        ELSE [tg |-> tg, any |-> FALSE]

\* Faulty variant: the colour value is added to the target level.
write_colour_adds(tg, b) ==
    LET c == extract_json_number(b, "colour")
    IN  IF c.ok THEN [tg |-> [tg EXCEPT !.tcolourLevel = @ + c.out], any |-> TRUE]
        ELSE [tg |-> tg, any |-> FALSE]

write_colour(tg, b) ==
    LET c == extract_json_number(b, "colour")
    IN  IF c.ok THEN [tg |-> [tg EXCEPT !.tcolourLevel = c.out], any |-> TRUE]
        ELSE [tg |-> tg, any |-> FALSE]

write_geometry(tg, b) ==
    LET g == extract_json_string(b, "geometry")
    IN  IF g.ok
        THEN [tg |-> IF geometry_index(g.out.s) >= 0
                     THEN [tg EXCEPT !.tgeometryMode = geometry_index(g.out.s),
                                     !.tgeomStr = g.out.s]
                     ELSE tg,
              any |-> TRUE]
        ELSE [tg |-> tg, any |-> FALSE]

\* Faulty variant: the slots the list does not reach are set to zero.
write_segments_zero_fill(tg, b) ==
    LET a == extract_json_array_floats(b, "segments",
                                       [i \in 1..SEGMENTS |-> 0], SEGMENTS)
    IN  [tg |-> [tg EXCEPT !.tsegment = IF a.ok THEN a.arr ELSE tg.tsegment],
         any |-> a.ok]

write_segments(tg, b) ==
    LET a == extract_json_array_floats(b, "segments", tg.tsegment, SEGMENTS)
    IN  [tg |-> [tg EXCEPT !.tsegment = a.arr], any |-> a.ok]

write_width(tg, b) ==
    LET w == extract_json_number(b, "width")
    IN  IF w.ok
        THEN [tg |-> [tg EXCEPT !.telementWidth = clamp(w.out, 0, 100 * SCALE)], any |-> TRUE]
        ELSE [tg |-> tg, any |-> FALSE]

write_percent(tg, b) ==
    LET p == extract_json_number(b, "percent")
    IN  IF p.ok
        THEN [tg |-> [tg EXCEPT !.tpercent = clamp(p.out, 0, 1 * SCALE)], any |-> TRUE]
        ELSE [tg |-> tg, any |-> FALSE]

write_elementColor(tg, b) ==
    LET e == extract_json_string(b, "elementColor")
        c == IF e.ok THEN parse_hex_color(e.out.chars) ELSE [ok |-> FALSE]
    IN  IF c.ok
        THEN [tg |-> [tg EXCEPT !.telementColorRGB = c.rgb, !.thaveElementColor = TRUE],
              any |-> TRUE]
        ELSE [tg |-> tg, any |-> FALSE]

write_backgroundColor(tg, b) ==
    LET e == extract_json_string(b, "backgroundColor")
        c == IF e.ok THEN parse_hex_color(e.out.chars) ELSE [ok |-> FALSE]
    IN  IF c.ok
        THEN [tg |-> [tg EXCEPT !.tbackgroundColorRGB = c.rgb, !.thaveBackgroundColor = TRUE],
              any |-> TRUE]
        ELSE [tg |-> tg, any |-> FALSE]

write_fields(tg, b) ==
    LET f1 == write_mode(tg, b)
        f2 == write_colour(f1.tg, b)
        f3 == write_geometry(f2.tg, b)
        f4 == write_segments(f3.tg, b)
        f5 == write_width(f4.tg, b)
        f6 == write_percent(f5.tg, b)
        f7 == write_elementColor(f6.tg, b)
        f8 == write_backgroundColor(f7.tg, b)
    IN  [tg |-> f8.tg,
         any |-> f1.any \/ f2.any \/ f3.any \/ f4.any \/ f5.any \/ f6.any \/ f7.any \/ f8.any,
         gotColour |-> f2.any,
         gotElementColor |-> f7.any,
         gotBackgroundColor |-> f8.any]

(***************************************************************************)
(* Faulty variants of the mode branch, used to test the properties:         *)
(* heat mode without the geometry reset; heat mode that keeps a background  *)
(* once one was set; custom mode that derives the background from the       *)
(* colour level on every request.                                           *)
(***************************************************************************)
enforce_mode_keeps_geometry(tg, gotColour, gotBackgroundColor) ==
    IF tg.tmodeStr = "heat"
    THEN LET h == [tg EXCEPT !.telementColorRGB = <<CDEN, CDEN, CDEN>>,
                             !.thaveElementColor = TRUE]
         IN  IF ~gotBackgroundColor
             THEN [h EXCEPT !.tbackgroundColorRGB = heat_colour_to_bg(h.tcolourLevel),
                            !.thaveBackgroundColor = TRUE]
             ELSE h
    ELSE IF ~gotBackgroundColor /\ gotColour
         THEN [tg EXCEPT !.tbackgroundColorRGB = heat_colour_to_bg(tg.tcolourLevel),
                         !.thaveBackgroundColor = TRUE]
         ELSE tg

enforce_mode_sticky_background(tg, gotColour, gotBackgroundColor) ==
    IF tg.tmodeStr = "heat"
    THEN LET h == [tg EXCEPT !.tgeometryMode = 0, !.tgeomStr = "ring",
                             !.telementColorRGB = <<CDEN, CDEN, CDEN>>,
                             !.thaveElementColor = TRUE]
         IN  IF ~tg.thaveBackgroundColor
             THEN [h EXCEPT !.tbackgroundColorRGB = heat_colour_to_bg(h.tcolourLevel),
                            !.thaveBackgroundColor = TRUE]
             ELSE h
    ELSE IF ~gotBackgroundColor /\ gotColour
         THEN [tg EXCEPT !.tbackgroundColorRGB = heat_colour_to_bg(tg.tcolourLevel),
                         !.thaveBackgroundColor = TRUE]
         ELSE tg

enforce_mode_custom_always(tg, gotColour, gotBackgroundColor) ==
    IF tg.tmodeStr = "heat"
    THEN LET h == [tg EXCEPT !.tgeometryMode = 0, !.tgeomStr = "ring",
                             !.telementColorRGB = <<CDEN, CDEN, CDEN>>,
                             !.thaveElementColor = TRUE]
         IN  IF ~gotBackgroundColor
             THEN [h EXCEPT !.tbackgroundColorRGB = heat_colour_to_bg(h.tcolourLevel),
                            !.thaveBackgroundColor = TRUE]
             ELSE h
    ELSE IF ~gotBackgroundColor
         THEN [tg EXCEPT !.tbackgroundColorRGB = heat_colour_to_bg(tg.tcolourLevel),
                         !.thaveBackgroundColor = TRUE]
         ELSE tg

(***************************************************************************)
(* POST /update, lines 731-759: heat enforcement, or the custom branch.     *)
(***************************************************************************)
enforce_mode(tg, gotColour, gotBackgroundColor) ==
    IF tg.tmodeStr = "heat"
    THEN LET h == [tg EXCEPT !.tgeometryMode = 0, !.tgeomStr = "ring",
                             !.telementColorRGB = <<CDEN, CDEN, CDEN>>,
                             !.thaveElementColor = TRUE]
         IN  IF ~gotBackgroundColor
             THEN [h EXCEPT !.tbackgroundColorRGB = heat_colour_to_bg(h.tcolourLevel),
                            !.thaveBackgroundColor = TRUE]
             ELSE h
    ELSE IF ~gotBackgroundColor /\ gotColour
         THEN [tg EXCEPT !.tbackgroundColorRGB = heat_colour_to_bg(tg.tcolourLevel),
                         !.thaveBackgroundColor = TRUE]
         ELSE tg

(***************************************************************************)
(* POST /update, lines 761-770: the !any check, the timestamp and the       *)
(* response.                                                                *)
(***************************************************************************)
\* Faulty variant: the timestamp is set before the !any check.
finish_update_stamps_first(any, ut, now) ==
    IF ~any
    THEN [updateTime |-> now, res |-> [status |-> 400, body |-> "No valid fields"]]
    ELSE [updateTime |-> now, res |-> [status |-> 200, body |-> "OK"]]

finish_update(any, ut, now) ==
    IF ~any
    THEN [updateTime |-> ut, res |-> [status |-> 400, body |-> "No valid fields"]]
    ELSE [updateTime |-> now, res |-> [status |-> 200, body |-> "OK"]]

(***************************************************************************)
(* POST /update, lines 638-771, as one step: the outcome of a request on    *)
(* the target tg, timestamp ut and animation time now.                      *)
(***************************************************************************)
\* Faulty variant: any X-API-Token header value passes, a missing one too.
token_ok_anything(r) == TRUE

\* Line 640: the X-API-Token header value (empty when there is no header)
\* is compared with API_TOKEN.
token_ok(r) == r.token = API_TOKEN

\* Faulty variant: an accepted request does not stamp the timestamp.
update_handler_no_stamp(tg, ut, now, r) ==
    IF ~token_ok(r)
    THEN [target |-> tg, updateTime |-> ut, res |-> [status |-> 401, body |-> ""]]
    ELSE LET w == write_fields(tg, r.body)
             n == enforce_mode(w.tg, w.gotColour, w.gotBackgroundColor)
         IN  IF ~w.any
             THEN [target |-> n, updateTime |-> ut,
                   res |-> [status |-> 400, body |-> "No valid fields"]]
             ELSE [target |-> n, updateTime |-> ut,
                   res |-> [status |-> 200, body |-> "OK"]]

update_handler(tg, ut, now, r) ==
    IF ~token_ok(r)
    THEN [target |-> tg, updateTime |-> ut, res |-> [status |-> 401, body |-> ""]]
    ELSE LET w == write_fields(tg, r.body)
             n == enforce_mode(w.tg, w.gotColour, w.gotBackgroundColor)
             f == finish_update(w.any, ut, now)
         IN  [target |-> n, updateTime |-> f.updateTime, res |-> f.res]

(***************************************************************************)
(* GET /status, lines 773-788: the JSON object of the response.             *)
(***************************************************************************)
status_handler(bi, tg, lv, ut, now) ==
    LET age == now - ut
    IN  [colour |-> lv.colourLevel,
         geometry |-> tg.tgeomStr,
         segments |-> lv.segment,
         age |-> age,
         quiet |-> (bi # 0 /\ age > bi * 1000),
         mode |-> lv.modeStr,
         width |-> lv.elementWidth,
         percent |-> lv.percent]

(***************************************************************************)
(* main, lines 966-969: the clamped elapsed time of a tick, in ms.          *)
(***************************************************************************)
\* Faulty variant: the elapsed time is used as measured.
clamp_dt_unclamped(elapsed) == elapsed

clamp_dt(elapsed) == clamp(elapsed, 0, DT_MAX)

(***************************************************************************)
(* main, lines 975-993: the critical section of a tick.  The steps are      *)
(* ANIMSTEP*dt for scalars and 2.0f*dt for colour channels.                 *)
(***************************************************************************)
\* Faulty variant: the elapsed time is cut to whole seconds before it is used.
scalar_step_whole_seconds(dt) == ANIMSTEP * SCALE * (dt \div 1000)

\* Faulty variant: the rate is applied per tick, not per second.
scalar_step_per_tick(dt) == ANIMSTEP * SCALE

scalar_step(dt) == (ANIMSTEP * SCALE * dt) \div 1000

color_step(dt) == (COLORSTEP * CDEN * dt) \div 1000

\* Faulty variant: a full step toward the target, not limited to the distance.
approach_full_step(cur, tgt, step) ==
    IF tgt > cur THEN cur + step ELSE IF tgt < cur THEN cur - step ELSE cur

approach(cur, tgt, step) == cur + clamp(tgt - cur, 0 - step, step)

\* Faulty variant: the live geometry is not copied from the target.
interpolate_keeps_geometry(lv, tg, dt) ==
    [colourLevel |-> approach(lv.colourLevel, tg.tcolourLevel, scalar_step(dt)),
     segment |-> [i \in 1..SEGMENTS |->
                     approach(lv.segment[i], tg.tsegment[i], scalar_step(dt))],
     geometryMode |-> lv.geometryMode,
     modeStr |-> tg.tmodeStr,
     elementWidth |-> approach(lv.elementWidth, tg.telementWidth, scalar_step(dt)),
     percent |-> approach(lv.percent, tg.tpercent, scalar_step(dt)),
     elementColorRGB |-> [k \in 1..3 |->
                     approach(lv.elementColorRGB[k], tg.telementColorRGB[k], color_step(dt))],
     backgroundColorRGB |-> [k \in 1..3 |->
                     approach(lv.backgroundColorRGB[k], tg.tbackgroundColorRGB[k], color_step(dt))],
     haveElementColor |-> tg.thaveElementColor,
     haveBackgroundColor |-> tg.thaveBackgroundColor]

interpolate(lv, tg, dt) ==
    [colourLevel |-> approach(lv.colourLevel, tg.tcolourLevel, scalar_step(dt)),
     segment |-> [i \in 1..SEGMENTS |->
                     approach(lv.segment[i], tg.tsegment[i], scalar_step(dt))],
     geometryMode |-> tg.tgeometryMode,
     modeStr |-> tg.tmodeStr,
     elementWidth |-> approach(lv.elementWidth, tg.telementWidth, scalar_step(dt)),
     percent |-> approach(lv.percent, tg.tpercent, scalar_step(dt)),
     elementColorRGB |-> [k \in 1..3 |->
                     approach(lv.elementColorRGB[k], tg.telementColorRGB[k], color_step(dt))],
     backgroundColorRGB |-> [k \in 1..3 |->
                     approach(lv.backgroundColorRGB[k], tg.tbackgroundColorRGB[k], color_step(dt))],
     haveElementColor |-> tg.thaveElementColor,
     haveBackgroundColor |-> tg.thaveBackgroundColor]

(***************************************************************************)
(* main, lines 996-1038: age, animation clock and the render/clear choice.  *)
(***************************************************************************)
signal_age(now, ut) == now - ut

\* Faulty variant: the clock still runs at an age of exactly GRAY_START_TIME.
render_time_inclusive(age, now, ut) ==
    IF age <= GRAY_START_TIME * 1000 THEN now ELSE ut

render_time(age, now, ut) == IF age < GRAY_START_TIME * 1000 THEN now ELSE ut

\* Faulty variant: a threshold of 0 is not taken as "blanking disabled".
render_op_threshold_only(bi, age) ==
    IF age < bi * 1000 THEN "render" ELSE "clear"

render_op(bi, age) ==
    IF bi = 0 \/ age < bi * 1000 THEN "render" ELSE "clear"

render_decision(bi, elapsed, dt, now, ut) ==
    LET age == signal_age(now, ut)
    IN  [elapsed |-> elapsed,
         dt |-> dt,
         age |-> age,
         renderTime |-> render_time(age, now, ut),
         op |-> render_op(bi, age)]

(***************************************************************************)
(* Requests and elapsed times the model draws from                          *)
(***************************************************************************)
Body(f) == f @@ EmptyBody

HexGreen == <<"#", "0", "0", "F", "F", "0", "0">>
HexRed == <<"f", "f", "0", "0", "0", "0">>
HexBad == <<"b", "a", "d">>

Bodies ==
    { EmptyBody,
      Body("colour" :> Num(15000)),
      Body("colour" :> Num(150000)),
      Body("mode" :> Str("custom") @@ "colour" :> Num(80000)),
      Body("mode" :> Str("custom")),
      Body("mode" :> Str("heat")),
      Body("mode" :> Str("foo")),
      Body("geometry" :> Str("circle") @@ "elementColor" :> Hex(HexGreen)),
      Body("backgroundColor" :> Hex(HexRed)),
      Body("width" :> Num(150000) @@ "percent" :> Num(0 - 500)),
      Body("width" :> Num(50000) @@ "segments" :> Arr(<<Num(4000), Junk, Num(8000)>>)),
      Body("segments" :> Arr(<<Num(4000), Blank, Num(8000)>>)),
      Body("geometry" :> Str("hexagon")),
      Body("elementColor" :> Hex(HexBad)),
      Body("percent" :> Num(500)) }

Requests ==
    { [token |-> API_TOKEN, body |-> b] : b \in Bodies }
    \cup { [token |-> "", body |-> Body("colour" :> Num(15000))],
           [token |-> "wrong", body |-> Body("mode" :> Str("custom"))] }

Elapsed == {0, 100, 3000}

(***************************************************************************)
(* Initial state: the globals of lines 192-220.                             *)
(***************************************************************************)
Zeros == [i \in 1..SEGMENTS |-> 0]

InitTarget ==
    [tmodeStr |-> "heat", tcolourLevel |-> 30 * SCALE,
     tgeometryMode |-> 0, tgeomStr |-> "ring", tsegment |-> Zeros,
     telementWidth |-> 20 * SCALE, tpercent |-> 1 * SCALE,
     telementColorRGB |-> <<CDEN, CDEN, CDEN>>,
     tbackgroundColorRGB |-> <<0, 0, CDEN>>,
     thaveElementColor |-> FALSE, thaveBackgroundColor |-> FALSE]

InitLive ==
    [colourLevel |-> 30 * SCALE, segment |-> Zeros, geometryMode |-> 0,
     modeStr |-> "heat", elementWidth |-> 20 * SCALE, percent |-> 1 * SCALE,
     elementColorRGB |-> <<CDEN, CDEN, CDEN>>,
     backgroundColorRGB |-> <<0, 0, CDEN>>,
     haveElementColor |-> FALSE, haveBackgroundColor |-> FALSE]

(***************************************************************************)
(* Threads: the render loop (main) and the workers of the HTTP server's     *)
(* thread pool.  lk is the holder of state_mtx, 0 when it is free.          *)
(***************************************************************************)
Main == 0
Workers == 1..PoolSize
Threads == {Main} \cup Workers
Free == 0 - 1

NoRequest == [token |-> "", body |-> EmptyBody]
NoResponse == [status |-> 0, body |-> ""]
NoLocals == [kind |-> "none", r |-> NoRequest, any |-> FALSE, gotColour |-> FALSE,
             gotBackgroundColor |-> FALSE, pre |-> InitTarget, res |-> NoResponse]
NoFrame == [elapsed |-> 0, dt |-> 0, age |-> 0, renderTime |-> 0, op |-> "none"]

(***************************************************************************)
(* The process: the flag and the server pointer the signal handler uses   *)
(* (lines 223-225, 264-268), the HTTP server, and where the API thread     *)
(* (lines 626-805) and main (lines 922-1051) are in their life.  Started   *)
(* is the process right after line 923; Serving is the process once the    *)
(* API thread is inside svr.listen and main is in its loop.                *)
(***************************************************************************)
Started == [signals |-> 0, interrupt_received |-> FALSE, g_server |-> FALSE,
            server |-> "new", api |-> "created", main |-> "loop"]

Serving == [Started EXCEPT !.g_server = TRUE, !.server = "listening",
                           !.api = "listen"]

InitData ==
    /\ target = InitTarget
    /\ live = InitLive
    /\ updateTime = 0 - 10000
    /\ req = NoRequest
    /\ res = NoResponse
    /\ sres = status_handler(BLANKINTERVAL, InitTarget, InitLive, 0, 0)
    /\ frame = NoFrame
    /\ nreq = 0
    /\ pc = [th \in Threads |-> IF th = Main THEN "loop" ELSE "idle"]
    /\ lk = Free
    /\ loc = [w \in Workers |-> NoLocals]

Init ==
    /\ InitData
    /\ t = 0
    /\ blankInterval = BLANKINTERVAL
    /\ proc = Serving

(***************************************************************************)
(* One /update request handled from start to end.                           *)
(***************************************************************************)
Update ==
    /\ nreq < MaxRequests
    /\ \E r \in Requests :
          LET u == update_handler(target, updateTime, t, r)
          IN  /\ target' = u.target
              /\ updateTime' = u.updateTime
              /\ res' = u.res
              /\ req' = r
    /\ nreq' = nreq + 1
    /\ UNCHANGED <<live, t, sres, frame, pc, lk, loc, blankInterval, proc>>

(***************************************************************************)
(* One /status request handled from start to end.                           *)
(***************************************************************************)
Status ==
    /\ sres' = status_handler(blankInterval, target, live, updateTime, t)
    /\ UNCHANGED <<target, live, t, updateTime, req, res, frame, nreq, pc,
                 lk, loc, blankInterval, proc>>

(***************************************************************************)
(* One iteration of the render loop, lines 965-1045.                        *)
(***************************************************************************)
Tick ==
    /\ t < MaxT
    /\ \E e \in Elapsed :
          LET dt == clamp_dt(e)
          IN  /\ t' = t + dt
              /\ live' = interpolate(live, target, dt)
              /\ frame' = render_decision(blankInterval, e, dt, t + dt, updateTime)
    /\ UNCHANGED <<target, updateTime, req, res, sres, nreq, pc, lk, loc,
                 blankInterval, proc>>

Next == Update \/ Tick

Spec == Init /\ [][Next]_vars

\* The same, with status queries between the updates and the ticks.
NextStatus == Update \/ Tick \/ Status

SpecStatus == Init /\ [][NextStatus]_vars

(***************************************************************************)
(* The program long after its start.  BlankIntervals are the values of    *)
(* BLANKINTERVAL the program is built with: the one of line 135 and a       *)
(* threshold of 30 s.  A start of AgeStarts is the state after ticks of     *)
(* 0.1 s and no request, 0.2 s before the age (t + 10 s then) reaches the   *)
(* blank threshold or GRAY_START_TIME; the loop runs on for AgeSpan ms.     *)
(***************************************************************************)
BlankIntervals == {BLANKINTERVAL, 30}

AgeStarts == {(b - 10) * 1000 - 200 : b \in {30, GRAY_START_TIME}}

InitAge ==
    /\ InitData
    /\ t \in AgeStarts
    /\ blankInterval \in BlankIntervals
    /\ proc = Serving

AgeElapsed == {0, 100}

AgeUpdate ==
    /\ nreq < AgeRequests
    /\ \E r \in Requests :
          LET u == update_handler(target, updateTime, t, r)
          IN  /\ target' = u.target
              /\ updateTime' = u.updateTime
              /\ res' = u.res
              /\ req' = r
    /\ nreq' = nreq + 1
    /\ UNCHANGED <<live, t, sres, frame, pc, lk, loc, blankInterval, proc>>

AgeTick ==
    /\ \E s \in AgeStarts : s <= t /\ t < s + AgeSpan
    /\ \E e \in AgeElapsed :
          LET dt == clamp_dt(e)
          IN  /\ t' = t + dt
              /\ live' = interpolate(live, target, dt)
              /\ frame' = render_decision(blankInterval, e, dt, t + dt, updateTime)
    /\ UNCHANGED <<target, updateTime, req, res, sres, nreq, pc, lk, loc,
                 blankInterval, proc>>

NextAge == AgeUpdate \/ AgeTick

SpecAge == InitAge /\ [][NextAge]_vars

\* The same, with status queries between the updates and the ticks.
NextQuiet == AgeUpdate \/ AgeTick \/ Status

SpecQuiet == InitAge /\ [][NextQuiet]_vars

(***************************************************************************)
(* Segment lists: authorized requests whose only key is segments, with a   *)
(* list of three numbers, of two, of two around an empty entry, and of     *)
(* eleven.                                                                  *)
(***************************************************************************)
SegLists ==
    { <<Num(1000), Num(2000), Num(3000)>>,
      <<Num(4000), Num(8000)>>,
      <<Num(5000), Blank, Num(6000)>>,
      [i \in 1..(SEGMENTS + 1) |-> Num(i * 7000)] }

SegUpdate ==
    /\ nreq < SegRequests
    /\ \E l \in SegLists :
          LET r == [token |-> API_TOKEN, body |-> Body("segments" :> Arr(l))]
              u == update_handler(target, updateTime, t, r)
          IN  /\ target' = u.target
              /\ updateTime' = u.updateTime
              /\ res' = u.res
              /\ req' = r
    /\ nreq' = nreq + 1
    /\ UNCHANGED <<live, t, sres, frame, pc, lk, loc, blankInterval, proc>>

NextSeg == SegUpdate \/ Tick

SpecSeg == Init /\ [][NextSeg]_vars

(***************************************************************************)
(* The gradient at its breakpoints: authorized requests whose only key is  *)
(* a colour level at, 0.001 below or 0.001 above 33 and 66, which the heat  *)
(* branch (lines 731-744) turns into the target background.                 *)
(***************************************************************************)
Breakpoints == {33 * SCALE, 66 * SCALE}

HeatLevels == {b + d : b \in Breakpoints, d \in {0 - 1, 0, 1}}

HeatUpdate ==
    /\ nreq < HeatRequests
    /\ \E c \in HeatLevels :
          LET r == [token |-> API_TOKEN, body |-> Body("colour" :> Num(c))]
              u == update_handler(target, updateTime, t, r)
          IN  /\ target' = u.target
              /\ updateTime' = u.updateTime
              /\ res' = u.res
              /\ req' = r
    /\ nreq' = nreq + 1
    /\ UNCHANGED <<live, t, sres, frame, pc, lk, loc, blankInterval, proc>>

NextHeat == HeatUpdate \/ Tick

SpecHeat == Init /\ [][NextHeat]_vars

(***************************************************************************)
(* Start and shutdown, lines 922-1051, 626-628, 803-805 and 264-268.  The  *)
(* process starts as Started: handlers installed, API thread created.  The *)
(* API thread publishes its server in g_server, listens, and returns from  *)
(* svr.listen once the server is stopped.  The handler and main stop the   *)
(* server through g_server when that pointer is set.  The server is the    *)
(* HTTP library's: stop() ends a listening server; called on a server that *)
(* does not listen yet, it either has no effect or makes the later listen  *)
(* return at once.                                                          *)
(***************************************************************************)
StopOutcomes(server) ==
    IF server = "listening" THEN {"stopped"}
    ELSE IF server = "new" THEN {"new", "stopped"}
    ELSE {server}

InitStop ==
    /\ InitData
    /\ t = 0
    /\ blankInterval = BLANKINTERVAL
    /\ proc = Started

\* Lines 264-268, on delivery of SIGINT or SIGTERM.
InterruptHandler ==
    /\ proc.signals < MaxSignals
    /\ \E s \in (IF proc.g_server THEN StopOutcomes(proc.server) ELSE {proc.server}) :
          proc' = [proc EXCEPT !.signals = @ + 1,
                               !.interrupt_received = TRUE,
                               !.server = s]
    /\ UNCHANGED <<target, live, t, updateTime, req, res, sres, frame, nreq,
                   pc, lk, loc, blankInterval>>

\* Line 627.
ApiStart ==
    /\ proc.api = "created"
    /\ proc' = [proc EXCEPT !.api = "setup", !.g_server = TRUE]
    /\ UNCHANGED <<target, live, t, updateTime, req, res, sres, frame, nreq,
                   pc, lk, loc, blankInterval>>

\* Line 804, entering svr.listen.
ApiListen ==
    /\ proc.api = "setup"
    /\ proc' = IF proc.server = "stopped"
               THEN [proc EXCEPT !.api = "returned"]
               ELSE [proc EXCEPT !.api = "listen", !.server = "listening"]
    /\ UNCHANGED <<target, live, t, updateTime, req, res, sres, frame, nreq,
                   pc, lk, loc, blankInterval>>

\* Lines 804-805, svr.listen returning and the thread ending.
ApiReturn ==
    /\ proc.api = "listen"
    /\ proc.server = "stopped"
    /\ proc' = [proc EXCEPT !.api = "returned"]
    /\ UNCHANGED <<target, live, t, updateTime, req, res, sres, frame, nreq,
                   pc, lk, loc, blankInterval>>

\* An /update request served by the listening server.
StopUpdate ==
    /\ proc.server = "listening"
    /\ nreq < StopRequests
    /\ \E r \in Requests :
          LET u == update_handler(target, updateTime, t, r)
          IN  /\ target' = u.target
              /\ updateTime' = u.updateTime
              /\ res' = u.res
              /\ req' = r
    /\ nreq' = nreq + 1
    /\ UNCHANGED <<live, t, sres, frame, pc, lk, loc, blankInterval, proc>>

\* Line 965 with the flag clear, and the iteration that follows.
StopTick ==
    /\ proc.main = "loop"
    /\ ~proc.interrupt_received
    /\ t < StopMaxT
    /\ \E e \in Elapsed :
          LET dt == clamp_dt(e)
          IN  /\ t' = t + dt
              /\ live' = interpolate(live, target, dt)
              /\ frame' = render_decision(blankInterval, e, dt, t + dt, updateTime)
    /\ UNCHANGED <<target, updateTime, req, res, sres, nreq, pc, lk, loc,
                   blankInterval, proc>>

\* Line 965 with the flag set: the loop is left.
MainLeave ==
    /\ proc.main = "loop"
    /\ proc.interrupt_received
    /\ proc' = [proc EXCEPT !.main = "stop"]
    /\ UNCHANGED <<target, live, t, updateTime, req, res, sres, frame, nreq,
                   pc, lk, loc, blankInterval>>

\* Lines 1047-1048.
MainStop ==
    /\ proc.main = "stop"
    /\ \E s \in (IF proc.g_server THEN StopOutcomes(proc.server) ELSE {proc.server}) :
          proc' = [proc EXCEPT !.main = "join", !.server = s]
    /\ UNCHANGED <<target, live, t, updateTime, req, res, sres, frame, nreq,
                   pc, lk, loc, blankInterval>>

\* Lines 1049-1051: apiThread.join() returns once the API thread has ended.
MainJoin ==
    /\ proc.main = "join"
    /\ proc.api = "returned"
    /\ proc' = [proc EXCEPT !.main = "exited"]
    /\ UNCHANGED <<target, live, t, updateTime, req, res, sres, frame, nreq,
                   pc, lk, loc, blankInterval>>

ApiThread == ApiStart \/ ApiListen \/ ApiReturn

MainThread == StopTick \/ MainLeave \/ MainStop \/ MainJoin

NextStop == InterruptHandler \/ ApiThread \/ MainThread \/ StopUpdate

\* Both threads are scheduled again and again.
SpecStop ==
    InitStop /\ [][NextStop]_vars /\ WF_vars(ApiThread) /\ WF_vars(MainThread)

(***************************************************************************)
(* The render loop left to run: requests arrive only during the first       *)
(* ConvWindow milliseconds of animation time, and the loop goes on ticking  *)
(* with a positive elapsed time (each iteration lasts at least the frame    *)
(* period, lines 1043-1044) until ConvMaxT.                                 *)
(***************************************************************************)
ConvElapsed == {100, 250}

ConvUpdate ==
    /\ nreq < ConvRequests
    /\ t <= ConvWindow
    /\ \E r \in Requests :
          LET u == update_handler(target, updateTime, t, r)
          IN  /\ target' = u.target
              /\ updateTime' = u.updateTime
              /\ res' = u.res
              /\ req' = r
    /\ nreq' = nreq + 1
    /\ UNCHANGED <<live, t, sres, frame, pc, lk, loc, blankInterval, proc>>

ConvTick ==
    /\ t < ConvMaxT
    /\ \E e \in ConvElapsed :
          LET dt == clamp_dt(e)
          IN  /\ t' = t + dt
              /\ live' = interpolate(live, target, dt)
              /\ frame' = render_decision(blankInterval, e, dt, t + dt, updateTime)
    /\ UNCHANGED <<target, updateTime, req, res, sres, nreq, pc, lk, loc,
                 blankInterval, proc>>

NextConv == ConvUpdate \/ ConvTick

SpecConv == Init /\ [][NextConv]_vars /\ WF_vars(ConvTick)

(***************************************************************************)
(* The same program with its threads interleaved.  A worker handles one     *)
(* request at a time: the token check (line 640), lock_guard on state_mtx   *)
(* (line 643 / 774), the field writes, the mode branch, the !any check and  *)
(* timestamp, and the release of the mutex on return.  The render loop      *)
(* advances t (line 969) without the mutex, interpolates inside it, and     *)
(* reads updateTime for the age (line 997) and for the animation clock      *)
(* (line 1000) after releasing it.                                          *)
(***************************************************************************)
ConcBodies ==
    { EmptyBody,
      Body("colour" :> Num(15000)),
      Body("mode" :> Str("custom") @@ "colour" :> Num(80000)),
      Body("geometry" :> Str("circle") @@ "elementColor" :> Hex(HexGreen)) }

ConcRequestSet ==
    { [token |-> API_TOKEN, body |-> b] : b \in ConcBodies }
    \cup { [token |-> "wrong", body |-> Body("mode" :> Str("custom"))],
           [token |-> "", body |-> Body("colour" :> Num(15000))] }

ConcElapsed == {100, 250}

WReceiveUpdate(w) ==
    /\ pc[w] = "idle"
    /\ nreq < ConcRequests
    /\ nreq' = nreq + 1
    /\ \E r \in ConcRequestSet :
          loc' = [loc EXCEPT ![w] = [NoLocals EXCEPT !.kind = "update", !.r = r]]
    /\ pc' = [pc EXCEPT ![w] = "auth"]
    /\ UNCHANGED <<target, live, t, updateTime, req, res, sres, frame, lk,
                 blankInterval, proc>>

\* Lines 639-643: the token check; 401 and return, or on to the lock_guard.
WAuth(w) ==
    /\ pc[w] = "auth"
    /\ IF token_ok(loc[w].r)
       THEN /\ pc' = [pc EXCEPT ![w] = "lock"]
            /\ UNCHANGED <<req, res, loc>>
       ELSE /\ req' = loc[w].r
            /\ res' = [status |-> 401, body |-> ""]
            /\ pc' = [pc EXCEPT ![w] = "idle"]
            /\ loc' = [loc EXCEPT ![w] = NoLocals]
    /\ UNCHANGED <<target, live, t, updateTime, sres, frame, nreq, lk,
                 blankInterval, proc>>

WReceiveStatus(w) ==
    /\ pc[w] = "idle"
    /\ nreq < ConcRequests
    /\ nreq' = nreq + 1
    /\ pc' = [pc EXCEPT ![w] = "lock"]
    /\ loc' = [loc EXCEPT ![w] = [NoLocals EXCEPT !.kind = "status"]]
    /\ UNCHANGED <<target, live, t, updateTime, req, res, sres, frame, lk,
                 blankInterval, proc>>

WLock(w) ==
    /\ pc[w] = "lock"
    /\ lk = Free
    /\ lk' = w
    /\ pc' = [pc EXCEPT ![w] = IF loc[w].kind = "update" THEN "fields" ELSE "status"]
    /\ loc' = [loc EXCEPT ![w].pre = target]
    /\ UNCHANGED <<target, live, t, updateTime, req, res, sres, frame,
                 nreq, blankInterval, proc>>

WFields(w) ==
    /\ pc[w] = "fields"
    /\ LET f == write_fields(target, loc[w].r.body)
       IN  /\ target' = f.tg
           /\ loc' = [loc EXCEPT ![w].any = f.any, ![w].gotColour = f.gotColour,
                                 ![w].gotBackgroundColor = f.gotBackgroundColor]
    /\ pc' = [pc EXCEPT ![w] = "mode"]
    /\ UNCHANGED <<live, t, updateTime, req, res, sres, frame, nreq, lk,
                 blankInterval, proc>>

WMode(w) ==
    /\ pc[w] = "mode"
    /\ target' = enforce_mode(target, loc[w].gotColour, loc[w].gotBackgroundColor)
    /\ pc' = [pc EXCEPT ![w] = "stamp"]
    /\ UNCHANGED <<live, t, updateTime, req, res, sres, frame, nreq, lk,
                 loc, blankInterval, proc>>

WStamp(w) ==
    /\ pc[w] = "stamp"
    /\ LET f == finish_update(loc[w].any, updateTime, t)
       IN  /\ updateTime' = f.updateTime
           /\ loc' = [loc EXCEPT ![w].res = f.res]
    /\ pc' = [pc EXCEPT ![w] = IF loc[w].any THEN "log" ELSE "unlock"]
    /\ UNCHANGED <<target, live, t, req, res, sres, frame, nreq, lk,
                 blankInterval, proc>>

\* Line 764: log_ts writes the line to stderr and flushes it (lines 245-248).
WLog(w) ==
    /\ pc[w] = "log"
    /\ pc' = [pc EXCEPT ![w] = "unlock"]
    /\ UNCHANGED <<target, live, t, updateTime, req, res, sres, frame, nreq,
                   lk, loc, blankInterval, proc>>

WStatus(w) ==
    /\ pc[w] = "status"
    /\ sres' = status_handler(blankInterval, target, live, updateTime, t)
    /\ pc' = [pc EXCEPT ![w] = "unlock"]
    /\ UNCHANGED <<target, live, t, updateTime, req, res, frame, nreq, lk,
                 loc, blankInterval, proc>>

WUnlock(w) ==
    /\ pc[w] = "unlock"
    /\ lk' = Free
    /\ pc' = [pc EXCEPT ![w] = "idle"]
    /\ loc' = [loc EXCEPT ![w] = NoLocals]
    /\ IF loc[w].kind = "update"
       THEN req' = loc[w].r /\ res' = loc[w].res
       ELSE UNCHANGED <<req, res>>
    /\ UNCHANGED <<target, live, t, updateTime, sres, frame, nreq,
                 blankInterval, proc>>

MBegin ==
    /\ pc[Main] = "loop"
    /\ t < ConcMaxT
    /\ \E e \in ConcElapsed :
          /\ t' = t + clamp_dt(e)
          /\ frame' = [frame EXCEPT !.elapsed = e, !.dt = clamp_dt(e)]
    /\ pc' = [pc EXCEPT ![Main] = "lock"]
    /\ UNCHANGED <<target, live, updateTime, req, res, sres, nreq, lk, loc,
                 blankInterval, proc>>

MLock ==
    /\ pc[Main] = "lock"
    /\ lk = Free
    /\ lk' = Main
    /\ pc' = [pc EXCEPT ![Main] = "interp"]
    /\ UNCHANGED <<target, live, t, updateTime, req, res, sres, frame,
                 nreq, loc, blankInterval, proc>>

MInterpolate ==
    /\ pc[Main] = "interp"
    /\ live' = interpolate(live, target, frame.dt)
    /\ pc' = [pc EXCEPT ![Main] = "unlock"]
    /\ UNCHANGED <<target, t, updateTime, req, res, sres, frame, nreq, lk,
                 loc, blankInterval, proc>>

MUnlock ==
    /\ pc[Main] = "unlock"
    /\ lk' = Free
    /\ pc' = [pc EXCEPT ![Main] = "age"]
    /\ UNCHANGED <<target, live, t, updateTime, req, res, sres, frame,
                 nreq, loc, blankInterval, proc>>

MAge ==
    /\ pc[Main] = "age"
    /\ frame' = [frame EXCEPT !.age = signal_age(t, updateTime)]
    /\ pc' = [pc EXCEPT ![Main] = "render"]
    /\ UNCHANGED <<target, live, t, updateTime, req, res, sres, nreq, lk,
                 loc, blankInterval, proc>>

MRender ==
    /\ pc[Main] = "render"
    /\ frame' = [frame EXCEPT !.renderTime = render_time(frame.age, t, updateTime),
                              !.op = render_op(blankInterval, frame.age)]
    /\ pc' = [pc EXCEPT ![Main] = "loop"]
    /\ UNCHANGED <<target, live, t, updateTime, req, res, sres, nreq, lk,
                 loc, blankInterval, proc>>

WorkerStep(w) ==
    \/ WReceiveUpdate(w)
    \/ WReceiveStatus(w)
    \/ WAuth(w)
    \/ WLock(w)
    \/ WFields(w)
    \/ WMode(w)
    \/ WStamp(w)
    \/ WLog(w)
    \/ WStatus(w)
    \/ WUnlock(w)

MainStep == MBegin \/ MLock \/ MInterpolate \/ MUnlock \/ MAge \/ MRender

NextConc == MainStep \/ \E w \in Workers : WorkerStep(w)

SpecConc == Init /\ [][NextConc]_vars

(***************************************************************************)
(* Vocabulary of the properties                                             *)
(***************************************************************************)
White == <<CDEN, CDEN, CDEN>>

Accepted == res = [status |-> 200, body |-> "OK"]

UpdateStep == nreq' # nreq

TickStep == <<t, live, frame>>' # <<t, live, frame>>

\* The request carries a colour / backgroundColor value that parses.
SuppliesColour(b) == b["colour"].kind = "number"

SuppliesBackground(b) ==
    /\ b["backgroundColor"].kind = "string"
    /\ parse_hex_color(b["backgroundColor"].chars).ok

SuppliedBackground(b) == parse_hex_color(b["backgroundColor"].chars).rgb

\* The fields of a body that are recognized, as the command interface
\* defines them: a mode or geometry of the listed names, a number, a list
\* of numbers, a six-digit hex colour.
Recognized(b) ==
    { k \in Keys :
        \/ k = "mode" /\ b[k].kind = "string" /\ b[k].s \in {"heat", "custom"}
        \/ k = "geometry" /\ b[k].kind = "string"
              /\ b[k].s \in {"ring", "circle", "square", "triangle", "x"}
        \/ k \in {"colour", "width", "percent"} /\ b[k].kind = "number"
        \/ k = "segments" /\ b[k].kind = "array"
              /\ \A i \in 1..Len(b[k].toks) : b[k].toks[i].kind \in {"number", "blank"}
        \/ k \in {"elementColor", "backgroundColor"} /\ b[k].kind = "string"
              /\ parse_hex_color(b[k].chars).ok }

InRange(v, lo, hi) == lo <= v /\ v <= hi

(***************************************************************************)
(* C1: a request with a valid token and no recognized field is answered     *)
(* 'No valid fields' and leaves every target field and the last-update      *)
(* timestamp as they were.                                                  *)
(***************************************************************************)
C1_RejectedLeavesTarget ==
    [][(UpdateStep /\ req'.token = API_TOKEN /\ ~write_fields(target, req'.body).any)
          => /\ res' = [status |-> 400, body |-> "No valid fields"]
             /\ target' = target
             /\ updateTime' = updateTime]_vars

(***************************************************************************)
(* C2: whenever the target mode is heat, the target geometry is ring and    *)
(* the target element colour is (1,1,1).                                    *)
(***************************************************************************)
C2_HeatIsWhiteRing ==
    target.tmodeStr = "heat"
        => /\ target.tgeometryMode = 0
           /\ target.tgeomStr = "ring"
           /\ target.telementColorRGB = White

C2_Witness ==
    /\ Accepted
    /\ target.tmodeStr = "heat"
    /\ req.body["geometry"] = Str("circle")
    /\ req.body["elementColor"] = Hex(HexGreen)

(***************************************************************************)
(* C3: after an accepted request that leaves the mode at heat, the target   *)
(* background colour is the backgroundColor of that request if it supplied  *)
(* a valid one, and otherwise the gradient colour of the resulting target   *)
(* colour level.                                                            *)
(***************************************************************************)
C3_HeatBackground ==
    (Accepted /\ target.tmodeStr = "heat")
        => target.tbackgroundColorRGB =
              IF SuppliesBackground(req.body)
              THEN SuppliedBackground(req.body)
              ELSE heat_colour_to_bg(target.tcolourLevel)

C3_Witness ==
    /\ Accepted
    /\ target.tmodeStr = "heat"
    /\ ~SuppliesColour(req.body)
    /\ ~SuppliesBackground(req.body)
    /\ target.tcolourLevel = 15 * SCALE
    /\ target.tbackgroundColorRGB = <<0, 1275, 3264>>

(***************************************************************************)
(* C4: a request that leaves the mode at custom and supplies colour but no  *)
(* backgroundColor sets the target background to the gradient colour of     *)
(* that colour; one that supplies neither leaves the background as it was.  *)
(***************************************************************************)
C4_CustomBackground ==
    [][(UpdateStep /\ req'.token = API_TOKEN /\ target'.tmodeStr = "custom"
            /\ ~SuppliesBackground(req'.body))
          => IF SuppliesColour(req'.body)
             THEN target'.tbackgroundColorRGB = heat_colour_to_bg(req'.body["colour"].n)
             ELSE target'.tbackgroundColorRGB = target.tbackgroundColorRGB]_vars

C4_Witness ==
    /\ Accepted
    /\ target.tmodeStr = "custom"
    /\ ~SuppliesColour(req.body)
    /\ ~SuppliesBackground(req.body)
    /\ target.tcolourLevel = 80 * SCALE
    /\ target.tbackgroundColorRGB = <<CDEN, 3300, 0>>

(***************************************************************************)
(* C5: a request with a valid token and at least one recognized field is    *)
(* answered 200 'OK' and sets the last-update timestamp to the animation    *)
(* time t of that moment.                                                   *)
(***************************************************************************)
C5_RecognizedAccepted ==
    [][(UpdateStep /\ req'.token = API_TOKEN /\ Recognized(req'.body) # {})
          => /\ res' = [status |-> 200, body |-> "OK"]
             /\ updateTime' = t]_vars

C5_Witness ==
    /\ Accepted
    /\ Recognized(req.body) # {}
    /\ t > 0
    /\ updateTime = t

(***************************************************************************)
(* C6: an accepted request leaves every target field it does not supply at *)
(* its previous value, except the timestamp and the mode-derived fields    *)
(* (heat: geometry, element colour, background colour, colour-set flags;    *)
(* custom: background colour when the request supplied colour).             *)
(***************************************************************************)
C6_UnsuppliedFieldsKept ==
    [][(UpdateStep /\ res' = [status |-> 200, body |-> "OK"])
          => LET got == Recognized(req'.body)
                 heat == target'.tmodeStr = "heat"
             IN  /\ "mode" \notin got => target'.tmodeStr = target.tmodeStr
                 /\ "colour" \notin got => target'.tcolourLevel = target.tcolourLevel
                 /\ "width" \notin got => target'.telementWidth = target.telementWidth
                 /\ "percent" \notin got => target'.tpercent = target.tpercent
                 /\ "segments" \notin got => target'.tsegment = target.tsegment
                 /\ ("geometry" \notin got /\ ~heat)
                       => /\ target'.tgeometryMode = target.tgeometryMode
                          /\ target'.tgeomStr = target.tgeomStr
                 /\ ("elementColor" \notin got /\ ~heat)
                       => /\ target'.telementColorRGB = target.telementColorRGB
                          /\ target'.thaveElementColor = target.thaveElementColor
                 /\ ("backgroundColor" \notin got /\ ~heat)
                       => target'.thaveBackgroundColor = target.thaveBackgroundColor
                 /\ ("backgroundColor" \notin got /\ "colour" \notin got /\ ~heat)
                       => target'.tbackgroundColorRGB = target.tbackgroundColorRGB]_vars

(***************************************************************************)
(* C7: the target colour level and width are within [0,100], the target     *)
(* percent within [0,1] and every target colour channel within [0,1].       *)
(***************************************************************************)
C7_TargetInRange ==
    /\ InRange(target.tcolourLevel, 0, 100 * SCALE)
    /\ InRange(target.telementWidth, 0, 100 * SCALE)
    /\ InRange(target.tpercent, 0, 1 * SCALE)
    /\ \A k \in 1..3 : /\ InRange(target.telementColorRGB[k], 0, CDEN)
                       /\ InRange(target.tbackgroundColorRGB[k], 0, CDEN)

(***************************************************************************)
(* C8: the target mode and the live mode are always heat or custom.         *)
(***************************************************************************)
C8_ModeIsHeatOrCustom ==
    /\ target.tmodeStr \in {"heat", "custom"}
    /\ live.modeStr \in {"heat", "custom"}

(***************************************************************************)
(* C9: /update requests serialize.  No two threads are at the same time at  *)
(* a step that reads or writes the target state (the target fields and the  *)
(* last-update timestamp), so that no tick, status query or other update    *)
(* sees a request half applied; and the target a request leaves when it     *)
(* returns is the one the whole handler computes from the target it found.  *)
(***************************************************************************)
AccessesTarget(th) ==
    IF th = Main
    THEN pc[th] \in {"interp", "age", "render"}
    ELSE pc[th] \in {"fields", "mode", "stamp", "status"}

TargetAccessExclusive ==
    \A a \in Threads : \A b \in Threads :
        a # b => ~(AccessesTarget(a) /\ AccessesTarget(b))

UpdateIsAtomic ==
    \A w \in Workers :
        (pc[w] = "unlock" /\ loc[w].kind = "update")
            => LET u == update_handler(loc[w].pre, updateTime, updateTime, loc[w].r)
               IN  target = u.target /\ loc[w].res = u.res

C9_UpdatesSerialize == TargetAccessExclusive /\ UpdateIsAtomic

(***************************************************************************)
(* C10: in a tick every interpolated live field moves toward its target by  *)
(* at most rate*dt (40/s for scalars, 2/s for colour channels), by exactly  *)
(* rate*dt while the target is farther than that, never past the target,    *)
(* and lands on the target once the distance is at most rate*dt.            *)
(***************************************************************************)
Dist(a, b) == IF a < b THEN b - a ELSE a - b

Chases(cur, new, tgt, step) ==
    /\ (cur <= tgt => (cur <= new /\ new <= tgt))
    /\ (tgt <= cur => (tgt <= new /\ new <= cur))
    /\ Dist(new, tgt) <= Dist(cur, tgt)
    /\ (Dist(cur, tgt) <= step => new = tgt)
    /\ (Dist(cur, tgt) > step => Dist(new, cur) = step)

C10_RateLimitedChase ==
    [][TickStep
          => LET dt == t' - t
                 s == (40 * SCALE * dt) \div 1000
                 c == (2 * CDEN * dt) \div 1000
             IN  /\ frame'.dt = dt
                 /\ Chases(live.colourLevel, live'.colourLevel, target.tcolourLevel, s)
                 /\ Chases(live.elementWidth, live'.elementWidth, target.telementWidth, s)
                 /\ Chases(live.percent, live'.percent, target.tpercent, s)
                 /\ \A i \in 1..SEGMENTS :
                       Chases(live.segment[i], live'.segment[i], target.tsegment[i], s)
                 /\ \A k \in 1..3 :
                       /\ Chases(live.elementColorRGB[k], live'.elementColorRGB[k],
                                 target.telementColorRGB[k], c)
                       /\ Chases(live.backgroundColorRGB[k], live'.backgroundColorRGB[k],
                                 target.tbackgroundColorRGB[k], c)]_vars

C10_Witness ==
    /\ frame.dt = 100
    /\ target.tcolourLevel = 80 * SCALE
    /\ live.colourLevel = 34 * SCALE
    /\ target.tbackgroundColorRGB = <<CDEN, 3300, 0>>
    /\ live.backgroundColorRGB = <<1122, 1122, CDEN - 1122>>
    /\ live.modeStr = "custom"

(***************************************************************************)
(* C11: once no further command is accepted and the loop keeps ticking with *)
(* a positive elapsed time, every live field eventually equals its target   *)
(* field and stays equal to it.                                             *)
(***************************************************************************)
Converged ==
    /\ live.colourLevel = target.tcolourLevel
    /\ live.segment = target.tsegment
    /\ live.geometryMode = target.tgeometryMode
    /\ live.modeStr = target.tmodeStr
    /\ live.elementWidth = target.telementWidth
    /\ live.percent = target.tpercent
    /\ live.elementColorRGB = target.telementColorRGB
    /\ live.backgroundColorRGB = target.tbackgroundColorRGB
    /\ live.haveElementColor = target.thaveElementColor
    /\ live.haveBackgroundColor = target.thaveBackgroundColor

C11_LiveConverges == <>[]Converged

C11_Witness ==
    /\ Converged
    /\ Accepted
    /\ target.tcolourLevel = 150 * SCALE
    /\ live.colourLevel = 150 * SCALE
    /\ t >= 3000

(***************************************************************************)
(* C12  The time step of every tick lies between 0 and 0.1 s whatever the  *)
(* measured elapsed time is, a stall of seconds included; the animation    *)
(* time never decreases and grows by exactly that step, so by at most      *)
(* 0.1 s per tick.                                                         *)
(***************************************************************************)
C12_ClampedClock ==
    [][/\ t' >= t
       /\ TickStep => /\ 0 <= frame'.dt
                      /\ frame'.dt <= 100
                      /\ t' = t + frame'.dt]_vars

\* A tick that followed a stall of three seconds and advanced t by 0.1 s.
C12_Witness ==
    /\ frame.elapsed = 3000
    /\ frame.dt = 100
    /\ t = 200

(***************************************************************************)
(* C13  At every tick the animation clock handed to the renderer is the    *)
(* free-running time t when the age of the last accepted command is below  *)
(* 60 s, and the timestamp of that command when the age is 60 s or more.   *)
(***************************************************************************)
C13_ClockFreezesAtSixty ==
    [][TickStep =>
          /\ frame'.age = t' - updateTime
          /\ frame'.age < 60000 => frame'.renderTime = t'
          /\ frame'.age >= 60000 => frame'.renderTime = updateTime]_vars

\* A tick at an age of exactly 60 s: the clock is the timestamp, not t.
C13_Witness ==
    /\ frame.age = 60000
    /\ frame.renderTime = updateTime
    /\ frame.renderTime # t
    /\ frame.op = "render"

(***************************************************************************)
(* C14  Every tick issues exactly one of render and clear.  Built with a   *)
(* blank threshold of 0 it renders whatever the age is; built with another *)
(* threshold it renders when the age is below the threshold and clears     *)
(* when the age has reached it.                                            *)
(***************************************************************************)
C14_RenderOrClear ==
    [][TickStep =>
          /\ frame'.op \in {"render", "clear"}
          /\ blankInterval = 0 => frame'.op = "render"
          /\ blankInterval # 0 =>
                (frame'.op = "render" <=> frame'.age < blankInterval * 1000)]_vars

\* A tick of the build with a 30 s threshold at an age of exactly 30 s.
C14_Witness ==
    /\ blankInterval = 30
    /\ frame.age = 30000
    /\ frame.op = "clear"

(***************************************************************************)
(* C15  An /update request whose X-API-Token header is missing or wrong   *)
(* is answered 401 at the token check: its worker goes from the check      *)
(* straight back to idle, never to the mutex or to the parsing of the      *)
(* body, whoever holds the mutex then, and the step leaves the target, the *)
(* timestamp and the mutex as they were.                                   *)
(***************************************************************************)
C15_UnauthorizedRejectedFirst ==
    [][\A w \in Workers :
          /\ (loc'[w].kind = "update" /\ loc'[w].r.token # API_TOKEN)
                => pc'[w] = "auth"
          /\ (pc[w] = "auth" /\ pc'[w] # "auth" /\ loc[w].r.token # API_TOKEN)
                => /\ pc'[w] = "idle"
                   /\ req' = loc[w].r
                   /\ res' = [status |-> 401, body |-> ""]
                   /\ target' = target
                   /\ updateTime' = updateTime
                   /\ lk' = lk]_vars

\* A request without the header was answered 401 while another thread held
\* the mutex.
C15_Witness ==
    /\ req.token = ""
    /\ res = [status |-> 401, body |-> ""]
    /\ lk # Free

(***************************************************************************)
(* C16  The gradient is continuous at 33 and at 66 in all three channels:  *)
(* the background an accepted heat command gets for a level 0.001 below or *)
(* above a breakpoint is, within 2/5610 of a channel, the background the   *)
(* gradient gives at the breakpoint itself.                                *)
(***************************************************************************)
C16_HeatContinuous ==
    \A b \in Breakpoints : \A c \in {b - 1, b + 1} :
        (Accepted /\ target.tmodeStr = "heat" /\ req.body["colour"] = Num(c))
            => \A k \in 1..3 :
                   Dist(target.tbackgroundColorRGB[k], heat_colour_to_bg(b)[k]) <= 2

(***************************************************************************)
(* C17  Once SIGINT or SIGTERM has been delivered, at whatever point after *)
(* the handlers were installed, the process eventually exits: the server   *)
(* has stopped, the render loop has been left, and the API thread has      *)
(* ended and been joined.                                                  *)
(***************************************************************************)
C17_SignalLeadsToExit ==
    (proc.signals > 0) ~> (/\ proc.main = "exited"
                           /\ proc.api = "returned"
                           /\ proc.server = "stopped")

(***************************************************************************)
(* C18  A status response reports the live state: its mode and its         *)
(* geometry name are those of the live state at the time of the query, so  *)
(* no response pairs mode heat with a geometry other than ring.            *)
(***************************************************************************)
GeometryNames == {"ring", "circle", "square", "triangle", "x"}

GeometryName(i) == CHOOSE g \in GeometryNames : geometry_index(g) = i

StatusStep == sres' # sres

C18_StatusReportsLive ==
    [][StatusStep =>
          /\ sres'.mode = live.modeStr
          /\ sres'.geometry = GeometryName(live.geometryMode)
          /\ sres'.mode = "heat" => sres'.geometry = "ring"]_vars

(***************************************************************************)
(* C19  A field whose value fails to parse counts as absent.  A request    *)
(* with a valid token whose only key is geometry with a name outside ring, *)
(* circle, square, triangle and x, or whose only key is elementColor or    *)
(* backgroundColor with a malformed hex string, is answered 'No valid      *)
(* fields', and the target field of that key keeps its value.              *)
(***************************************************************************)
Present(b) == {k \in Keys : b[k].kind # "absent"}

OnlyUnparsed(b) ==
    /\ Cardinality(Present(b)) = 1
    /\ Present(b) \subseteq {"geometry", "elementColor", "backgroundColor"}
    /\ Recognized(b) = {}

C19_UnparsedIsAbsent ==
    [][(UpdateStep /\ req'.token = API_TOKEN /\ OnlyUnparsed(req'.body))
          => /\ res' = [status |-> 400, body |-> "No valid fields"]
             /\ "geometry" \in Present(req'.body)
                   => /\ target'.tgeometryMode = target.tgeometryMode
                      /\ target'.tgeomStr = target.tgeomStr
             /\ "elementColor" \in Present(req'.body)
                   => target'.telementColorRGB = target.telementColorRGB
             /\ "backgroundColor" \in Present(req'.body)
                   => target'.tbackgroundColorRGB = target.tbackgroundColorRGB]_vars

(***************************************************************************)
(* C20  A segments list with an entry that is not a number makes the       *)
(* segments field absent: none of the ten target segment values changes,   *)
(* the slots before the first malformed entry included.                    *)
(***************************************************************************)
MalformedSegments(b) ==
    /\ b["segments"].kind = "array"
    /\ \E i \in 1..Len(b["segments"].toks) : b["segments"].toks[i].kind = "junk"

C20_MalformedSegmentsIgnored ==
    [][(UpdateStep /\ req'.token = API_TOKEN /\ MalformedSegments(req'.body))
          => target'.tsegment = target.tsegment]_vars

(***************************************************************************)
(* C21  A command whose segments list holds k < 10 numbers sets the target *)
(* segment slots 0..k-1 to those numbers and leaves the slots k..9 at      *)
(* their previous values; of a longer list the first ten numbers are       *)
(* taken and the rest is ignored.                                          *)
(***************************************************************************)
IsNumber(tok) == tok.kind = "number"

C21_PartialSegments ==
    [][(UpdateStep /\ req'.token = API_TOKEN /\ "segments" \in Recognized(req'.body))
          => LET vals == SelectSeq(req'.body["segments"].toks, IsNumber)
             IN  \A i \in 1..SEGMENTS :
                    target'.tsegment[i] =
                       IF i <= Len(vals) THEN vals[i].n ELSE target.tsegment[i]]_vars

\* A list of two numbers after a list of three: slot 2 keeps the value 3.
C21_Witness ==
    /\ Accepted
    /\ req.body["segments"] = Arr(<<Num(4000), Num(8000)>>)
    /\ target.tsegment[1] = 4000
    /\ target.tsegment[2] = 8000
    /\ target.tsegment[3] = 3000

(***************************************************************************)
(* C22  The targets a tick interpolates toward and the timestamp it takes  *)
(* its age from belong to one target state: between the end of the tick's  *)
(* critical section and its reading of the timestamp no command stamps the *)
(* timestamp, so a command is in that tick's targets and in its age, or in *)
(* neither.                                                                *)
(***************************************************************************)
C22_TickSeesOneTargetState ==
    [][pc[Main] = "age" => updateTime' = updateTime]_vars

(***************************************************************************)
(* C23  Every access to a variable that both the workers and the render    *)
(* loop use (target, updateTime, t, live) happens under the state mutex:   *)
(* in no reachable state is one thread about to write such a variable      *)
(* while another thread is about to read or write it.                      *)
(***************************************************************************)
Shared == {"target", "updateTime", "t", "live"}

\* The variables the next step of thread th writes (lines 969, 975-993 for
\* the loop; 652-757 and 763 for a worker).
Writes(th) ==
    IF th = Main
    THEN CASE pc[th] = "loop" /\ t < ConcMaxT -> {"t"}
           [] pc[th] = "interp" -> {"live"}
           [] OTHER -> {}
    ELSE CASE pc[th] \in {"fields", "mode"} -> {"target"}
           [] pc[th] = "stamp" /\ loc[th].any -> {"updateTime"}
           [] OTHER -> {}

\* The variables the next step of thread th reads (lines 975-993, 997, 1000
\* for the loop; 652-757, 763, 764 and 775-785 for a worker).
Reads(th) ==
    IF th = Main
    THEN CASE pc[th] = "loop" /\ t < ConcMaxT -> {"t"}
           [] pc[th] = "interp" -> {"target", "live"}
           [] pc[th] = "age" -> {"t", "updateTime"}
           [] pc[th] = "render" ->
                 IF frame.age < GRAY_START_TIME * 1000 THEN {"t"} ELSE {"updateTime"}
           [] OTHER -> {}
    ELSE CASE pc[th] \in {"fields", "mode"} -> {"target"}
           [] pc[th] = "stamp" /\ loc[th].any -> {"t"}
           [] pc[th] = "log" -> {"target"}
           [] pc[th] = "status" -> {"target", "live", "t", "updateTime"}
           [] OTHER -> {}

C23_NoUnlockedSharedAccess ==
    \A a \in Threads : \A b \in Threads \ {a} :
        Writes(a) \cap (Reads(b) \cup Writes(b)) = {}

(***************************************************************************)
(* C24  From one tick to the next each live scalar (colour level, width,   *)
(* percent, each segment) changes by at most 40 * 0.1 = 4 units and each   *)
(* live colour channel by at most 2 * 0.1 = 0.2, whatever commands are     *)
(* accepted in between and however long the tick was delayed: a tick moves *)
(* the live fields by no more than that, and a command moves none of them. *)
(***************************************************************************)
C24_BoundedChangePerTick ==
    [][/\ Dist(live'.colourLevel, live.colourLevel) <= 4 * SCALE
       /\ Dist(live'.elementWidth, live.elementWidth) <= 4 * SCALE
       /\ Dist(live'.percent, live.percent) <= 4 * SCALE
       /\ \A i \in 1..SEGMENTS : Dist(live'.segment[i], live.segment[i]) <= 4 * SCALE
       /\ \A k \in 1..3 :
             /\ 5 * Dist(live'.elementColorRGB[k], live.elementColorRGB[k]) <= CDEN
             /\ 5 * Dist(live'.backgroundColorRGB[k], live.backgroundColorRGB[k]) <= CDEN
       /\ UpdateStep => live' = live]_vars

\* A tick delayed by three seconds, with the target colour level 120 units
\* away: the live level has moved by 4, and live blue by 0.2.
C24_Witness ==
    /\ frame.elapsed = 3000
    /\ target.tcolourLevel = 150 * SCALE
    /\ live.colourLevel = 34 * SCALE
    /\ live.backgroundColorRGB[3] = CDEN - CDEN \div 5

(***************************************************************************)
(* C25  At the end of every tick's critical section the live geometry and  *)
(* the live mode are the target's of that critical section, and only the   *)
(* render loop writes live fields: every step that changes a live field is *)
(* the loop's interpolation step, taken with the mutex held by the loop.   *)
(***************************************************************************)
C25_DiscreteFieldsCopied ==
    [][/\ pc'[Main] = "unlock"
             => /\ live'.geometryMode = target'.tgeometryMode
                /\ live'.modeStr = target'.tmodeStr
       /\ live' # live => (pc[Main] = "interp" /\ lk = Main)]_vars

\* The loop at the end of a critical section that copied geometry circle
\* and mode custom, set by two commands before it.
C25_Witness ==
    /\ pc[Main] = "unlock"
    /\ live.geometryMode = 1
    /\ live.modeStr = "custom"
    /\ target.tgeomStr = "circle"

(***************************************************************************)
(* C26  The age a tick computes is the real time since the last accepted   *)
(* command, also when the tick was delayed by more than 100 ms: with no    *)
(* command accepted since the previous tick, the age has grown by the time *)
(* that really elapsed between the two ticks.                              *)
(***************************************************************************)
C26_AgeIsWallClock ==
    [][(TickStep /\ frame.op # "none" /\ frame.age = t - updateTime)
          => frame'.age = frame.age + frame'.elapsed]_vars

(***************************************************************************)
(* C27  A thread that holds the state mutex does nothing external or       *)
(* blocking: the render loop renders, swaps and sleeps without the mutex,  *)
(* and a worker neither writes a log line nor anything else outside the    *)
(* program while it holds it.                                              *)
(***************************************************************************)
\* The next step of thread th is an external or blocking operation: render,
\* swap and sleep (lines 1003-1044) for the loop, log output for a worker.
External(th) == IF th = Main THEN pc[th] = "render" ELSE pc[th] = "log"

C27_NoExternalUnderMutex == \A th \in Threads : External(th) => lk # th

(***************************************************************************)
(* C28  Every live numeric field is within its range in every reachable    *)
(* state: live colour level and live width in [0,100], live percent in     *)
(* [0,1], every live element and background colour channel in [0,1].       *)
(***************************************************************************)
C28_LiveInRange ==
    /\ InRange(live.colourLevel, 0, 100 * SCALE)
    /\ InRange(live.elementWidth, 0, 100 * SCALE)
    /\ InRange(live.percent, 0, 1 * SCALE)
    /\ \A k \in 1..3 : /\ InRange(live.elementColorRGB[k], 0, CDEN)
                       /\ InRange(live.backgroundColorRGB[k], 0, CDEN)

(***************************************************************************)
(* C29  A rejected /update, unauthorized or 'No valid fields', never       *)
(* changes the last-update timestamp, so the age of the next tick still    *)
(* counts from the last accepted command.                                  *)
(***************************************************************************)
Rejected ==
    res \in {[status |-> 401, body |-> ""],
             [status |-> 400, body |-> "No valid fields"]}

C29_RejectedKeepsTimestamp ==
    [][(UpdateStep /\ Rejected') => updateTime' = updateTime]_vars

\* A command accepted at t = 0.1 s, a rejected one, and a tick at 0.2 s
\* whose age is 0.1 s.
C29_Witness ==
    /\ Rejected
    /\ nreq = 2
    /\ updateTime = 100
    /\ t = 200
    /\ frame.age = 100

(***************************************************************************)
(* C30  Applying an accepted command a second time, with no other command  *)
(* in between, gives the target state the first application gave, in every *)
(* field (the timestamp is not a target field here): the handler applied   *)
(* to the target it has just produced returns that target, and a run in    *)
(* which the accepted command is repeated leaves the target as it was.     *)
(***************************************************************************)
C30_UpdateIdempotent ==
    [][(UpdateStep /\ Accepted')
          => /\ update_handler(target', updateTime', t', req').target = target'
             /\ (Accepted /\ req' = req) => target' = target]_vars

\* The command {"mode":"custom","colour":80} accepted as second command in
\* custom mode, at a later time than the first.
C30_Witness ==
    /\ Accepted
    /\ nreq = 2
    /\ req.body = Body("mode" :> Str("custom") @@ "colour" :> Num(80000))
    /\ target.tmodeStr = "custom"
    /\ target.tbackgroundColorRGB = heat_colour_to_bg(80 * SCALE)
    /\ updateTime = 100

(***************************************************************************)
(* C31  For every age and every blank threshold the quiet flag of a status *)
(* response computed from an age is true exactly when a tick that computes *)
(* the same age clears the display instead of rendering, also when the age *)
(* equals the threshold and when the threshold is 0.                       *)
(***************************************************************************)
C31_QuietIffCleared ==
    (frame.op # "none" /\ sres.age = frame.age)
        => (sres.quiet <=> frame.op = "clear")

====
